---- MODULE Spec2Model ----
(***************************************************************************)
(* Model of src/Radios_curva.py (ExtraerCurvasYCentroides).                *)
(*                                                                         *)
(* Numbers.  The program computes in double precision.  Here a length is   *)
(* an integer count of 1/Q metre, and the two operations of the program    *)
(* that cannot be exact, the square root and the division, round to the    *)
(* nearest unit (RoundSqrt, RoundDiv).  Sums, differences and products of  *)
(* the integer inputs are exact.  An optional value (Python None) is the   *)
(* empty tuple; a present number v is <<v>>, a present point is <<x, y>>.  *)
(***************************************************************************)
EXTENDS Integers, Sequences, FiniteSets, TLC

\* ---- bounds of the model ------------------------------------------------
Q == 2            \* units per metre
MaxFeats == 2     \* records of the densified layer (pipeline)
MaxSegs == 3      \* one-triplet records of the clustering scenarios
MaxDrift == 4     \* one-triplet records of the centroid drift scenarios
MaxShift == 7     \* largest x offset (m) of a corner in those scenarios

None == <<>>
Some(v) == <<v>>
Abs(x) == IF x < 0 THEN -x ELSE x

\* ---- rounding arithmetic --------------------------------------------------
RECURSIVE SqrtSearch(_, _, _)
SqrtSearch(n, lo, hi) ==
    \* largest s in lo..hi with s*s <= n
    IF lo >= hi THEN lo
    ELSE LET mid == (lo + hi + 1) \div 2
         IN  IF mid * mid <= n THEN SqrtSearch(n, mid, hi)
                               ELSE SqrtSearch(n, lo, mid - 1)

RECURSIVE SqrtBound(_, _)
SqrtBound(n, h) == IF h * h > n THEN h ELSE SqrtBound(n, 2 * h)

\* math.sqrt on a non-negative value, rounded to the nearest unit
RoundSqrt(n) ==
    LET s == SqrtSearch(n, 0, SqrtBound(n, 1))
    IN  IF n - s * s > s THEN s + 1 ELSE s

\* the float division a / b (b # 0), rounded to the nearest unit
RoundDiv(a, b) ==
    IF b < 0 THEN (2 * (-a) + (-b)) \div (2 * (-b))
             ELSE (2 * a + b) \div (2 * b)

\* ---- geometry -------------------------------------------------------------
Pt(x, y) == <<x * Q, y * Q>>

\* QgsPointXY.distance
Distance(p, q) ==
    RoundSqrt((p[1] - q[1]) * (p[1] - q[1]) + (p[2] - q[2]) * (p[2] - q[2]))

\* circle_radius: Heron's formula; a ValueError (negative square root
\* argument) or a ZeroDivisionError (zero area) is caught and becomes None.
\* prod16 is 16*s*(s-a)*(s-b)*(s-c) with 2s = a+b+c, so area4 is 4*area.
circle_radius(p1, p2, p3) ==
    LET a == Distance(p1, p2)
        b == Distance(p2, p3)
        c == Distance(p3, p1)
        s2 == a + b + c
        prod16 == s2 * (s2 - 2 * a) * (s2 - 2 * b) * (s2 - 2 * c)
    IN  IF prod16 < 0 THEN None
        ELSE LET area4 == RoundSqrt(prod16)
             IN  IF area4 = 0 THEN None
                 ELSE Some(RoundDiv(a * b * c, area4))

\* the collinearity tolerance 1e-9 of circle_center: it is below one unit of
\* d (1/Q^2 square metre), so on this grid |d| < 1e-9 holds exactly for d = 0
EpsD == 1

\* circle_center
circle_center(p1, p2, p3) ==
    LET ax == p1[1]
        ay == p1[2]
        bx == p2[1]
        by == p2[2]
        cx == p3[1]
        cy == p3[2]
        d == 2 * (ax * (by - cy) + bx * (cy - ay) + cx * (ay - by))
    IN  IF Abs(d) < EpsD THEN None
        ELSE LET ux == RoundDiv((ax * ax + ay * ay) * (by - cy)
                                + (bx * bx + by * by) * (cy - ay)
                                + (cx * cx + cy * cy) * (ay - by), d)
                 uy == RoundDiv((ax * ax + ay * ay) * (cx - bx)
                                + (bx * bx + by * by) * (ax - cx)
                                + (cx * cx + cy * cy) * (bx - ax), d)
             IN  <<ux, uy>>

\* ---- extraction of the curve segments --------------------------------------
\* (mutant) the range filter includes its bounds
TripletSegmentsInclusive(p1, p2, p3, md, rmin, rmax, incluir_ctr) ==
    IF Distance(p1, p2) < md \/ Distance(p2, p3) < md THEN <<>>
    ELSE LET r == circle_radius(p1, p2, p3)
         IN  IF r # None /\ r[1] # 0 /\ rmin <= r[1] /\ r[1] <= rmax
             THEN << [geom   |-> <<p1, p2, p3>>,
                      radio  |-> r[1],
                      long   |-> Distance(p1, p2) + Distance(p2, p3),
                      centro |-> IF incluir_ctr THEN circle_center(p1, p2, p3)
                                                ELSE None] >>
             ELSE <<>>

\* body of the innermost loop: the segments (none or one) of one triplet
TripletSegments(p1, p2, p3, md, rmin, rmax, incluir_ctr) ==
    IF Distance(p1, p2) < md \/ Distance(p2, p3) < md THEN <<>>
    ELSE LET r == circle_radius(p1, p2, p3)
         IN  IF r # None /\ r[1] # 0 /\ rmin < r[1] /\ r[1] < rmax
             THEN << [geom   |-> <<p1, p2, p3>>,
                      radio  |-> r[1],
                      long   |-> Distance(p1, p2) + Distance(p2, p3),
                      centro |-> IF incluir_ctr THEN circle_center(p1, p2, p3)
                                                ELSE None] >>
             ELSE <<>>

\* for j in range(len(line) - 2), from index j (0-based) on
RECURSIVE LineSegments(_, _, _, _, _, _)
LineSegments(line, j, md, rmin, rmax, incluir_ctr) ==
    IF j >= Len(line) - 2 THEN <<>>
    ELSE TripletSegments(line[j + 1], line[j + 2], line[j + 3],
                         md, rmin, rmax, incluir_ctr)
         \o LineSegments(line, j + 1, md, rmin, rmax, incluir_ctr)

\* for line in parts, from part k (1-based) on
RECURSIVE PartsSegments(_, _, _, _, _, _)
PartsSegments(parts, k, md, rmin, rmax, incluir_ctr) ==
    IF k > Len(parts) THEN <<>>
    ELSE LineSegments(parts[k], 0, md, rmin, rmax, incluir_ctr)
         \o PartsSegments(parts, k + 1, md, rmin, rmax, incluir_ctr)

\* for i, feat in enumerate(...): the segments one record adds
FeatureSegments(feat, md, rmin, rmax, incluir_ctr) ==
    PartsSegments(feat, 1, md, rmin, rmax, incluir_ctr)

\* ---- parameters --------------------------------------------------------------
IsNone(v) == v = None
Val(v) == v[1]

MsgInterval == "Intervalo de densificacion debe ser > 0"
MsgMinDist  == "Distancia minima entre vertices no puede ser negativa"
MsgRadius   == "Radio minimo debe ser menor que radio maximo"
MsgCluster  == "Distancia de agrupacion debe ser >= 0"

\* (mutant) the validation stops at the first violated condition
checkParameterValuesFailFast(p) ==
    IF IsNone(p.INTERVAL) \/ Val(p.INTERVAL) <= 0 THEN <<FALSE, <<MsgInterval>>>>
    ELSE IF IsNone(p.MIN_DIST) \/ Val(p.MIN_DIST) < 0 THEN <<FALSE, <<MsgMinDist>>>>
    ELSE IF IsNone(p.MIN_RADIUS) \/ IsNone(p.MAX_RADIUS)
            \/ Val(p.MIN_RADIUS) >= Val(p.MAX_RADIUS) THEN <<FALSE, <<MsgRadius>>>>
    ELSE IF IsNone(p.CLUSTER_DISTANCE) \/ Val(p.CLUSTER_DISTANCE) < 0
         THEN <<FALSE, <<MsgCluster>>>>
    ELSE <<TRUE, <<>>>>

\* checkParameterValues: <<accepted, entries of the message>>
checkParameterValues(p) ==
    LET intervalo == p.INTERVAL
        md        == p.MIN_DIST
        rmin      == p.MIN_RADIUS
        rmax      == p.MAX_RADIUS
        cd        == p.CLUSTER_DISTANCE
        e1 == IF IsNone(intervalo) \/ Val(intervalo) <= 0
              THEN <<MsgInterval>> ELSE <<>>
        e2 == IF IsNone(md) \/ Val(md) < 0
              THEN <<MsgMinDist>> ELSE <<>>
        e3 == IF IsNone(rmin) \/ IsNone(rmax) \/ Val(rmin) >= Val(rmax)
              THEN <<MsgRadius>> ELSE <<>>
        e4 == IF IsNone(cd) \/ Val(cd) < 0
              THEN <<MsgCluster>> ELSE <<>>
        errores == e1 \o e2 \o e3 \o e4
    IN  IF errores # <<>> THEN <<FALSE, errores>> ELSE <<TRUE, <<>>>>

\* ---- inputs --------------------------------------------------------------------
\* a record of the densified layer is a sequence of parts, a part a sequence
\* of vertices (coordinates in metres)
Straight == << <<Pt(0, 0), Pt(1, 0), Pt(2, 0), Pt(3, 0)>> >>
Skew     == << <<Pt(0, 0), Pt(1, 1), Pt(3, 3)>> >>
Corner   == << <<Pt(0, 2), Pt(0, 0), Pt(2, 0), Pt(2, 2)>> >>
Right345 == << <<Pt(0, 0), Pt(3, 0), Pt(3, 4)>> >>
Short    == << <<Pt(0, 0), Pt(1, 0), Pt(1, 3)>> >>
Multi    == << <<Pt(0, 0), Pt(3, 0), Pt(3, 4)>>, <<Pt(5, 0), Pt(5, 2), Pt(7, 2)>> >>
Stub     == << <<Pt(0, 0), Pt(1, 0)>> >>
Curve    == << <<Pt(0, 0), Pt(5, 0), Pt(10, 1), Pt(15, 4), Pt(20, 9)>> >>

Features == {Straight, Skew, Corner, Right345, Short, Multi, Stub, Curve}

\* one right-angled triplet whose circumcentre is (u + 1, 1)
CornerAt(u) == << <<Pt(u, 2), Pt(u, 0), Pt(u + 2, 0)>> >>
\* one right-angled triplet whose circumcentre is (u + 2, 2)
WideCornerAt(u) == << <<Pt(u, 4), Pt(u, 0), Pt(u + 4, 0)>> >>

DriftFeatures == {CornerAt(u) : u \in 0..MaxShift}
ClusterFeatures == DriftFeatures \cup {WideCornerAt(0), Skew}

SeqsUpTo(S, n) == UNION {[1..k -> S] : k \in 0..n}

R345 == Val(circle_radius(Pt(0, 0), Pt(3, 0), Pt(3, 4)))
Huge == 1000000 * Q

IntervalValues == {None, Some(0), Some(15 * Q)}
MinDistValues  == {None, Some(-1), Some(0), Some(2 * Q)}
RminValues     == {None, Some(0), Some(R345)}
RmaxValues     == {None, Some(R345), Some(50 * Q), Some(Huge)}
ClusterValues  == {None, Some(-1), Some(0), Some(4 * Q)}

ParamSpace == [INTERVAL : IntervalValues, MIN_DIST : MinDistValues,
               MIN_RADIUS : RminValues, MAX_RADIUS : RmaxValues,
               ADD_CENTERS : BOOLEAN, CLUSTER_DISTANCE : ClusterValues]

\* ---- state ------------------------------------------------------------------------
VARIABLES parameters, valid, mensaje, layer, pc, i, canceled,
          segmentos, clusters, mapa_cluster, idx, curvas, centros

vars == <<parameters, valid, mensaje, layer, pc, i, canceled,
          segmentos, clusters, mapa_cluster, idx, curvas, centros>>

\* parameterAsDouble / parameterAsBool
rmin        == Val(parameters.MIN_RADIUS)
rmax        == Val(parameters.MAX_RADIUS)
md          == Val(parameters.MIN_DIST)
incluir_ctr == parameters.ADD_CENTERS
dist_agrup  == Val(parameters.CLUSTER_DISTANCE)

\* ---- clustering ----------------------------------------------------------------------
RECURSIVE SumSeq(_)
SumSeq(s) == IF s = <<>> THEN 0 ELSE Head(s) + SumSeq(Tail(s))

\* QgsPointXY(sum(xs)/len(xs), sum(ys)/len(ys)) over the members (0-based indices)
MeanCenter(segs, indices) ==
    LET xs == [k \in 1..Len(indices) |-> segs[indices[k] + 1].centro[1]]
        ys == [k \in 1..Len(indices) |-> segs[indices[k] + 1].centro[2]]
    IN  <<RoundDiv(SumSeq(xs), Len(xs)), RoundDiv(SumSeq(ys), Len(ys))>>

\* (mutant) the nearest cluster in range instead of the first
NearestFit(cls, pt, dist, cid) ==
    LET InRange == {c \in (cid + 1)..Len(cls) :
                       Distance(pt, cls[c].centroid) <= dist}
    IN  IF InRange = {} THEN -1
        ELSE (CHOOSE c \in InRange : \A e \in InRange :
                 \/ Distance(pt, cls[c].centroid) < Distance(pt, cls[e].centroid)
                 \/ /\ Distance(pt, cls[c].centroid) = Distance(pt, cls[e].centroid)
                    /\ c <= e) - 1

\* (mutant) the first cluster, whatever its distance
AnyFit(cls, pt, dist, cid) == IF cid >= Len(cls) THEN -1 ELSE cid

\* for cid, cl in enumerate(clusters): the first cluster (0-based) whose
\* centroid is within dist of pt, scanning from cid on; -1 when there is none
RECURSIVE FirstFit(_, _, _, _)
FirstFit(cls, pt, dist, cid) ==
    IF cid >= Len(cls) THEN -1
    ELSE IF Distance(pt, cls[cid + 1].centroid) <= dist THEN cid
    ELSE FirstFit(cls, pt, dist, cid + 1)

\* (mutant) the centroid is not recomputed
JoinClusterStale(cl, segs, k) ==
    [centroid |-> cl.centroid,
     indices  |-> Append(cl.indices, k),
     sum_r    |-> cl.sum_r + segs[k + 1].radio]

\* (mutant) the radius is not added to the sum
JoinClusterNoSum(cl, segs, k) ==
    [centroid |-> MeanCenter(segs, Append(cl.indices, k)),
     indices  |-> Append(cl.indices, k),
     sum_r    |-> cl.sum_r]

\* the cluster after segment k (0-based) joined it
JoinCluster(cl, segs, k) ==
    LET indices == Append(cl.indices, k)
    IN  [centroid |-> MeanCenter(segs, indices),
         indices  |-> indices,
         sum_r    |-> cl.sum_r + segs[k + 1].radio]

\* the cluster segment k (0-based) starts
NewCluster(segs, k) ==
    [centroid |-> segs[k + 1].centro,
     indices  |-> <<k>>,
     sum_r    |-> segs[k + 1].radio]

\* mapa_cluster.get(k, -1)
Get(m, k) == IF k \in DOMAIN m THEN m[k] ELSE -1

Put(m, k, v) == [x \in (DOMAIN m) \cup {k} |-> IF x = k THEN v ELSE m[x]]

\* ---- result records ----------------------------------------------------------------------
\* (mutant) a segment without cluster gets id 0
CurveRecordsZero(segs, m) ==
    [k \in 1..Len(segs) |->
        [ID_Curva |-> k - 1,
         ID_Centroide |-> IF k - 1 \in DOMAIN m THEN m[k - 1] ELSE 0,
         Radio |-> segs[k].radio, Longitud |-> segs[k].long,
         geom |-> segs[k].geom]]

CurveRecords(segs, m) ==
    [k \in 1..Len(segs) |->
        [ID_Curva |-> k - 1, ID_Centroide |-> Get(m, k - 1),
         Radio |-> segs[k].radio, Longitud |-> segs[k].long,
         geom |-> segs[k].geom]]

CenterRecords(cls) ==
    [c \in 1..Len(cls) |->
        LET cnt == Len(cls[c].indices)
            avg == IF cnt # 0 THEN RoundDiv(cls[c].sum_r, cnt) ELSE 0
        IN  [ID_Centroide |-> c - 1, Radio_medio |-> avg, Conteo |-> cnt,
             geom |-> cls[c].centroid]]

\* ---- initial states ------------------------------------------------------------------
Blank ==
    /\ valid = None
    /\ mensaje = None
    /\ canceled = FALSE
    /\ clusters = <<>>
    /\ mapa_cluster = <<>>
    /\ idx = 0
    /\ curvas = <<>>
    /\ centros = <<>>

\* the framework is about to validate a parameter dictionary
InitParams ==
    /\ parameters \in ParamSpace
    /\ layer = <<>>
    /\ pc = "check"
    /\ i = 0
    /\ segmentos = <<>>
    /\ Blank

\* processAlgorithm starts its extraction loop on a densified layer, with
\* parameters that passed checkParameterValues
Init ==
    /\ parameters \in {p \in ParamSpace : checkParameterValues(p)[1]}
    /\ layer \in SeqsUpTo(Features, MaxFeats)
    /\ pc = "extract"
    /\ i = 0
    /\ segmentos = <<>>
    /\ Blank

\* the whole segment list of a layer (the extraction loop run to its end)
RECURSIVE LayerSegments(_, _, _)
LayerSegments(lay, n, p) ==
    IF n = 0 THEN <<>>
    ELSE LayerSegments(lay, n - 1, p)
         \o FeatureSegments(lay[n], Val(p.MIN_DIST), Val(p.MIN_RADIUS),
                            Val(p.MAX_RADIUS), p.ADD_CENTERS)

ClusterParams ==
    {p \in ParamSpace : /\ checkParameterValues(p)[1]
                        /\ p.ADD_CENTERS
                        /\ p.MIN_DIST = Some(0)
                        /\ p.MIN_RADIUS = Some(0)
                        /\ p.MAX_RADIUS = Some(Huge)
                        /\ p.CLUSTER_DISTANCE = Some(4 * Q)}

\* processAlgorithm has finished extracting a layer of one-triplet records
\* and is about to cluster
InitCluster ==
    /\ parameters \in ClusterParams
    /\ layer \in SeqsUpTo(ClusterFeatures, MaxSegs)
    /\ pc = "cluster"
    /\ segmentos = LayerSegments(layer, Len(layer), parameters)
    /\ i = Len(layer)
    /\ Blank

\* the same for a longer layer of equal corners, all of which have a centre
InitDrift ==
    /\ parameters \in ClusterParams
    /\ layer \in SeqsUpTo(DriftFeatures, MaxDrift)
    /\ pc = "cluster"
    /\ segmentos = LayerSegments(layer, Len(layer), parameters)
    /\ i = Len(layer)
    /\ Blank

\* ---- actions ------------------------------------------------------------------------------
\* the framework validates the parameters
CheckParameters ==
    /\ pc = "check"
    /\ valid' = checkParameterValues(parameters)[1]
    /\ mensaje' = checkParameterValues(parameters)[2]
    /\ pc' = "checked"
    /\ UNCHANGED <<parameters, layer, i, canceled, segmentos, clusters,
                   mapa_cluster, idx, curvas, centros>>

\* the user cancels while the extraction loop runs
Cancel ==
    /\ pc = "extract"
    /\ ~canceled
    /\ canceled' = TRUE
    /\ UNCHANGED <<parameters, valid, mensaje, layer, pc, i, segmentos,
                   clusters, mapa_cluster, idx, curvas, centros>>

\* (mutant) the cancellation signal is not polled
ExtractFeatureNoPoll ==
    /\ pc = "extract"
    /\ i < Len(layer)
    /\ segmentos' = segmentos
                    \o FeatureSegments(layer[i + 1], md, rmin, rmax, incluir_ctr)
    /\ i' = i + 1
    /\ UNCHANGED <<parameters, valid, mensaje, layer, pc, canceled, clusters,
                   mapa_cluster, idx, curvas, centros>>

\* one iteration of the loop over the records (lines 189-214)
ExtractFeature ==
    /\ pc = "extract"
    /\ i < Len(layer)
    /\ ~canceled
    /\ segmentos' = segmentos
                    \o FeatureSegments(layer[i + 1], md, rmin, rmax, incluir_ctr)
    /\ i' = i + 1
    /\ UNCHANGED <<parameters, valid, mensaje, layer, pc, canceled, clusters,
                   mapa_cluster, idx, curvas, centros>>

\* if feedback.isCanceled(): break
ExtractBreak ==
    /\ pc = "extract"
    /\ i < Len(layer)
    /\ canceled
    /\ pc' = "cluster"
    /\ UNCHANGED <<parameters, valid, mensaje, layer, i, canceled, segmentos,
                   clusters, mapa_cluster, idx, curvas, centros>>

\* the loop over the records is exhausted
ExtractEnd ==
    /\ pc = "extract"
    /\ i = Len(layer)
    /\ pc' = "cluster"
    /\ UNCHANGED <<parameters, valid, mensaje, layer, i, canceled, segmentos,
                   clusters, mapa_cluster, idx, curvas, centros>>

\* if incluir_ctr: is false, no clustering
ClusterOff ==
    /\ pc = "cluster"
    /\ ~incluir_ctr
    /\ pc' = "curves"
    /\ UNCHANGED <<parameters, valid, mensaje, layer, i, canceled, segmentos,
                   clusters, mapa_cluster, idx, curvas, centros>>

\* if not pt: continue  (a QgsPointXY is truthy; only None is skipped)
ClusterSkip ==
    /\ pc = "cluster"
    /\ incluir_ctr
    /\ idx < Len(segmentos)
    /\ segmentos[idx + 1].centro = None
    /\ idx' = idx + 1
    /\ UNCHANGED <<parameters, valid, mensaje, layer, pc, i, canceled,
                   segmentos, clusters, mapa_cluster, curvas, centros>>

\* the segment joins the first cluster in range (lines 225-236)
ClusterJoin ==
    /\ pc = "cluster"
    /\ incluir_ctr
    /\ idx < Len(segmentos)
    /\ segmentos[idx + 1].centro # None
    /\ LET cid == FirstFit(clusters, segmentos[idx + 1].centro, dist_agrup, 0)
       IN  /\ cid # -1
           /\ clusters' = [clusters EXCEPT
                              ![cid + 1] = JoinCluster(@, segmentos, idx)]
           /\ mapa_cluster' = Put(mapa_cluster, idx, cid)
    /\ idx' = idx + 1
    /\ UNCHANGED <<parameters, valid, mensaje, layer, pc, i, canceled,
                   segmentos, curvas, centros>>

\* no cluster in range: the segment starts one (lines 238-244)
ClusterNew ==
    /\ pc = "cluster"
    /\ incluir_ctr
    /\ idx < Len(segmentos)
    /\ segmentos[idx + 1].centro # None
    /\ FirstFit(clusters, segmentos[idx + 1].centro, dist_agrup, 0) = -1
    /\ clusters' = Append(clusters, NewCluster(segmentos, idx))
    /\ mapa_cluster' = Put(mapa_cluster, idx, Len(clusters') - 1)
    /\ idx' = idx + 1
    /\ UNCHANGED <<parameters, valid, mensaje, layer, pc, i, canceled,
                   segmentos, curvas, centros>>

\* the loop over the segments is exhausted
ClusterEnd ==
    /\ pc = "cluster"
    /\ incluir_ctr
    /\ idx = Len(segmentos)
    /\ pc' = "curves"
    /\ UNCHANGED <<parameters, valid, mensaje, layer, i, canceled, segmentos,
                   clusters, mapa_cluster, idx, curvas, centros>>

\* the curve layer is written (lines 257-264)
EmitCurves ==
    /\ pc = "curves"
    /\ curvas' = CurveRecords(segmentos, mapa_cluster)
    /\ pc' = "centers"
    /\ UNCHANGED <<parameters, valid, mensaje, layer, i, canceled, segmentos,
                   clusters, mapa_cluster, idx, centros>>

\* the centroid layer is written (lines 268-286)
EmitCenters ==
    /\ pc = "centers"
    /\ incluir_ctr
    /\ centros' = CenterRecords(clusters)
    /\ pc' = "done"
    /\ UNCHANGED <<parameters, valid, mensaje, layer, i, canceled, segmentos,
                   clusters, mapa_cluster, idx, curvas>>

\* no centroid layer was requested
NoCenters ==
    /\ pc = "centers"
    /\ ~incluir_ctr
    /\ pc' = "done"
    /\ UNCHANGED <<parameters, valid, mensaje, layer, i, canceled, segmentos,
                   clusters, mapa_cluster, idx, curvas, centros>>

Next ==
    \/ Cancel
    \/ ExtractFeature
    \/ ExtractBreak
    \/ ExtractEnd
    \/ ClusterOff
    \/ ClusterSkip
    \/ ClusterJoin
    \/ ClusterNew
    \/ ClusterEnd
    \/ EmitCurves
    \/ EmitCenters
    \/ NoCenters

NextCluster ==
    \/ ClusterSkip
    \/ ClusterJoin
    \/ ClusterNew
    \/ ClusterEnd
    \/ EmitCurves
    \/ EmitCenters

NextDrift ==
    \/ ClusterJoin
    \/ ClusterNew
    \/ ClusterEnd
    \/ EmitCurves
    \/ EmitCenters

NextParams == CheckParameters

Spec == Init /\ [][Next]_vars
SpecCluster == InitCluster /\ [][NextCluster]_vars
SpecDrift == InitDrift /\ [][NextDrift]_vars
SpecParams == InitParams /\ [][NextParams]_vars

\* ==== properties ===========================================================================
Range(s) == {s[k] : k \in 1..Len(s)}
Center(k) == segmentos[k + 1].centro
Clustered == pc \in {"curves", "centers", "done"}
\* the clusters (1-based positions) whose member list holds segment k
Holders(k) == {c \in 1..Len(clusters) : k \in Range(clusters[c].indices)}
Occurrences(s, v) == Cardinality({n \in 1..Len(s) : s[n] = v})
\* twice the signed area of the triangle: zero exactly for collinear points
Cross(t) ==
    (t[2][1] - t[1][1]) * (t[3][2] - t[1][2])
    - (t[2][2] - t[1][2]) * (t[3][1] - t[1][1])
\* the consecutive triplets of a record
Triplets(feat) ==
    UNION {{<<feat[n][j], feat[n][j + 1], feat[n][j + 2]>> :
               j \in 1..(Len(feat[n]) - 2)} : n \in 1..Len(feat)}

\* C1: a segment with a centre joins the earliest-created cluster whose
\* current centroid is at distance <= clusterDistance (inclusive), whatever
\* the distances of the later clusters; it starts a new cluster, holding only
\* itself, exactly when no cluster is in range.
C1_FirstFitStep ==
    (pc = "cluster" /\ idx' = idx + 1 /\ Center(idx) # None) =>
        LET pt == Center(idx)
            InRange == {c \in 1..Len(clusters) :
                           Distance(pt, clusters[c].centroid) <= dist_agrup}
        IN  IF InRange = {}
            THEN /\ Len(clusters') = Len(clusters) + 1
                 /\ \A c \in 1..Len(clusters) : clusters'[c] = clusters[c]
                 /\ clusters'[Len(clusters')].indices = <<idx>>
                 /\ clusters'[Len(clusters')].centroid = pt
                 /\ clusters'[Len(clusters')].sum_r = segmentos[idx + 1].radio
                 /\ mapa_cluster'[idx] = Len(clusters)
            ELSE LET first == CHOOSE c \in InRange : \A e \in InRange : c <= e
                 IN  /\ Len(clusters') = Len(clusters)
                     /\ clusters'[first].indices
                            = Append(clusters[first].indices, idx)
                     /\ \A c \in 1..Len(clusters) :
                            c # first => clusters'[c] = clusters[c]
                     /\ mapa_cluster'[idx] = first - 1
C1_FirstFit == [][C1_FirstFitStep]_vars

\* the last processed segment joined cluster c1 at a distance of exactly
\* clusterDistance although the later-created cluster c2 was strictly nearer
C1_Witness ==
    /\ pc = "cluster"
    /\ idx > 0
    /\ \E c1 \in 1..Len(clusters) : \E c2 \in 1..Len(clusters) :
          LET ind == clusters[c1].indices
              before == MeanCenter(segmentos, SubSeq(ind, 1, Len(ind) - 1))
          IN  /\ c1 < c2
              /\ Len(ind) >= 2
              /\ ind[Len(ind)] = idx - 1
              /\ clusters[c2].indices[1] < idx - 1
              /\ Distance(Center(idx - 1), before) = dist_agrup
              /\ Distance(Center(idx - 1), clusters[c2].centroid)
                    < Distance(Center(idx - 1), before)

\* C2: after every step of the clustering loop the centroid of every cluster
\* is the mean of the centres of exactly the segments in its member list.
C2_CentroidIsMean ==
    \A c \in 1..Len(clusters) :
        clusters[c].centroid = MeanCenter(segmentos, clusters[c].indices)

\* a cluster whose centroid moved: two members with different centres
C2_Witness ==
    \E c \in 1..Len(clusters) :
        /\ Len(clusters[c].indices) >= 2
        /\ Center(clusters[c].indices[1]) # Center(clusters[c].indices[2])
        /\ clusters[c].centroid # Center(clusters[c].indices[1])

\* C3: with cluster generation requested no segment is appended without a
\* centre and no curve record carries clusterId = -1.
C3_NoSegmentWithoutCenter ==
    incluir_ctr =>
        /\ \A k \in 1..Len(segmentos) : segmentos[k].centro # None
        /\ \A k \in 1..Len(curvas) : curvas[k].ID_Centroide # -1

\* C4: at the end of clustering a segment with a centre is in the member list
\* of exactly one cluster, once, and its cluster id is that cluster's index;
\* a segment without a centre, and every segment when no clustering was
\* requested, is in no cluster and has cluster id -1; the curve records carry
\* these ids.
C4_SingleAssignment ==
    Clustered =>
        \A k \in 0..(Len(segmentos) - 1) :
            /\ IF incluir_ctr /\ Center(k) # None
               THEN /\ Cardinality(Holders(k)) = 1
                    /\ \A c \in Holders(k) :
                          /\ Occurrences(clusters[c].indices, k) = 1
                          /\ k \in DOMAIN mapa_cluster
                          /\ mapa_cluster[k] = c - 1
                          /\ pc \in {"centers", "done"} =>
                                curvas[k + 1].ID_Centroide = c - 1
               ELSE /\ Holders(k) = {}
                    /\ k \notin DOMAIN mapa_cluster
                    /\ pc \in {"centers", "done"} =>
                          curvas[k + 1].ID_Centroide = -1
            /\ pc \in {"centers", "done"} =>
                  /\ Len(curvas) = Len(segmentos)
                  /\ curvas[k + 1].ID_Curva = k

\* a finished run that wrote a record without cluster and one of cluster 1
C4_Witness ==
    /\ pc = "done"
    /\ incluir_ctr
    /\ \E k \in 1..Len(curvas) :
          curvas[k].ID_Centroide = -1 /\ segmentos[k].centro = None
    /\ \E k \in 1..Len(curvas) : curvas[k].ID_Centroide = 1

\* C5 (as stated): every cluster has count >= 1 = length of its member list,
\* radiusSum is the sum of its members' radii, and the emitted mean radius
\* times the count is exactly radiusSum.
RadiusSum(c) ==
    SumSeq([n \in 1..Len(clusters[c].indices) |->
               segmentos[clusters[c].indices[n] + 1].radio])
C5_Counts ==
    /\ \A c \in 1..Len(clusters) :
          /\ Len(clusters[c].indices) >= 1
          /\ clusters[c].sum_r = RadiusSum(c)
    /\ pc = "done" =>
          /\ Len(centros) = Len(clusters)
          /\ \A c \in 1..Len(centros) :
                /\ centros[c].Conteo = Len(clusters[c].indices)
                /\ centros[c].Conteo >= 1
C5_ExactMean ==
    /\ C5_Counts
    /\ pc = "done" =>
          \A c \in 1..Len(centros) :
              centros[c].Radio_medio * centros[c].Conteo = clusters[c].sum_r

\* C5 (amended): the same, the mean radius times the count being radiusSum up
\* to the rounding of the one division: twice the difference is at most count.
C5_MeanWithinRounding ==
    /\ C5_Counts
    /\ pc = "done" =>
          \A c \in 1..Len(centros) :
              2 * Abs(centros[c].Radio_medio * centros[c].Conteo
                      - clusters[c].sum_r) <= centros[c].Conteo

\* a written cluster record of several members with different radii whose
\* mean radius was rounded
C5_Witness ==
    /\ pc = "done"
    /\ \E c \in 1..Len(centros) :
          /\ centros[c].Conteo >= 2
          /\ \E m \in Range(clusters[c].indices) :
                \E n \in Range(clusters[c].indices) :
                    segmentos[m + 1].radio # segmentos[n + 1].radio
          /\ centros[c].Radio_medio * centros[c].Conteo # clusters[c].sum_r

\* C6: cancellation is polled at each record boundary; once it is raised
\* after k records the loop takes no further record, the segment list is that
\* of the first k records in order, the loop ends early only by cancellation,
\* and the clustering and both outputs are then produced from that list.
C6_PartialState ==
    /\ segmentos = LayerSegments(layer, i, parameters)
    /\ (pc # "extract" /\ i < Len(layer)) => canceled
    /\ pc = "done" =>
          /\ curvas = CurveRecords(segmentos, mapa_cluster)
          /\ Len(curvas) = Len(segmentos)
          /\ incluir_ctr =>
                /\ idx = Len(segmentos)
                /\ Len(centros) = Len(clusters)
                /\ \A k \in 0..(Len(segmentos) - 1) :
                      Center(k) # None => Holders(k) # {}
C6_PartialStep == canceled => (i' = i /\ segmentos' = segmentos)
C6_Cancellation == []C6_PartialState /\ [][C6_PartialStep]_vars

\* a finished run that was cancelled after some but not all records and
\* wrote the segments of the records before the cancellation
C6_Witness ==
    /\ pc = "done"
    /\ canceled
    /\ 0 < i
    /\ i < Len(layer)
    /\ curvas # <<>>
    /\ Len(LayerSegments(layer, Len(layer), parameters)) > Len(segmentos)

\* C7: no accepted segment has an edge shorter than minVertexSpacing, and the
\* radius of every accepted segment, which is the circumradius of its
\* triplet, lies strictly between minRadius and maxRadius.
C7_Filters ==
    \A k \in 1..Len(segmentos) :
        LET g == segmentos[k].geom
        IN  /\ Distance(g[1], g[2]) >= md
            /\ Distance(g[2], g[3]) >= md
            /\ circle_radius(g[1], g[2], g[3]) = Some(segmentos[k].radio)
            /\ rmin < segmentos[k].radio
            /\ segmentos[k].radio < rmax

\* two records were processed and rejected: one whose radius is exactly
\* maxRadius, one with a short edge and a radius inside the range
C7_Witness ==
    /\ i = 2
    /\ segmentos = <<>>
    /\ \E t \in Triplets(layer[1]) :
          /\ circle_radius(t[1], t[2], t[3]) = Some(rmax)
          /\ Distance(t[1], t[2]) >= md
          /\ Distance(t[2], t[3]) >= md
    /\ \E t \in Triplets(layer[2]) :
          /\ Distance(t[1], t[2]) < md
          /\ circle_radius(t[1], t[2], t[3]) # None
          /\ rmin < Val(circle_radius(t[1], t[2], t[3]))
          /\ Val(circle_radius(t[1], t[2], t[3])) < rmax

\* C8: for three collinear points circle_radius gives no radius and
\* circle_center no centre, so no accepted segment comes from a collinear
\* triplet and a layer of collinear lines gives no segment and no cluster.
C8_CollinearDegenerate ==
    /\ \A n \in 1..i : \A t \in Triplets(layer[n]) :
          Cross(t) = 0 =>
              /\ circle_radius(t[1], t[2], t[3]) = None
              /\ circle_center(t[1], t[2], t[3]) = None
    /\ \A k \in 1..Len(segmentos) : Cross(segmentos[k].geom) # 0
    /\ (\A n \in 1..i : \A t \in Triplets(layer[n]) : Cross(t) = 0) =>
          (segmentos = <<>> /\ clusters = <<>>)

\* C9: checkParameterValues rejects exactly when one of the four conditions
\* is violated (a missing value is a violation), the message has one entry
\* for each violated condition and none for a satisfied one, and it is empty
\* on acceptance.
BadInterval == IsNone(parameters.INTERVAL) \/ Val(parameters.INTERVAL) <= 0
BadMinDist == IsNone(parameters.MIN_DIST) \/ Val(parameters.MIN_DIST) < 0
BadRadius ==
    \/ IsNone(parameters.MIN_RADIUS)
    \/ IsNone(parameters.MAX_RADIUS)
    \/ Val(parameters.MIN_RADIUS) >= Val(parameters.MAX_RADIUS)
BadCluster ==
    IsNone(parameters.CLUSTER_DISTANCE) \/ Val(parameters.CLUSTER_DISTANCE) < 0
C9_AggregatedValidation ==
    pc = "checked" =>
        /\ valid = ~(BadInterval \/ BadMinDist \/ BadRadius \/ BadCluster)
        /\ Occurrences(mensaje, MsgInterval) = IF BadInterval THEN 1 ELSE 0
        /\ Occurrences(mensaje, MsgMinDist) = IF BadMinDist THEN 1 ELSE 0
        /\ Occurrences(mensaje, MsgRadius) = IF BadRadius THEN 1 ELSE 0
        /\ Occurrences(mensaje, MsgCluster) = IF BadCluster THEN 1 ELSE 0
        /\ Range(mensaje) \subseteq {MsgInterval, MsgMinDist, MsgRadius, MsgCluster}
        /\ valid => mensaje = <<>>

\* a rejection for several reasons at once, the first condition being satisfied
C9_Witness ==
    /\ pc = "checked"
    /\ valid = FALSE
    /\ ~BadInterval
    /\ BadMinDist
    /\ BadCluster
    /\ Len(mensaje) = 2

\* C10 (as stated): every member centre of every cluster is within
\* clusterDistance of the cluster's current centroid.
C10_Cohesion ==
    \A c \in 1..Len(clusters) : \A k \in Range(clusters[c].indices) :
        Distance(Center(k), clusters[c].centroid) <= dist_agrup

\* C10 (amended): a segment that joins an existing cluster is within
\* clusterDistance of the centroid the cluster has at that moment, before the
\* centroid is recomputed; nothing bounds its distance to a later centroid.
C10_JoinStep ==
    \A c \in 1..Len(clusters) :
        (c <= Len(clusters') /\ clusters'[c] # clusters[c]) =>
            /\ clusters'[c].indices = Append(clusters[c].indices, idx)
            /\ Distance(Center(idx), clusters[c].centroid) <= dist_agrup
C10_WithinAtJoin == [][C10_JoinStep]_vars

\* a cluster whose centroid drifted: an earlier member is now farther than
\* clusterDistance from it
C10_Witness ==
    \E c \in 1..Len(clusters) :
        /\ Len(clusters[c].indices) >= 2
        /\ Distance(Center(clusters[c].indices[1]), clusters[c].centroid)
              > dist_agrup

====
